---------------------------- MODULE Spec2Model ----------------------------
(***************************************************************************)
(* A model of the lag-window feature engine and of the declarative model   *)
(* pipeline assembly of empirical_lsm:                                     *)
(*   scripts/lag_average_assessment.py  window_to_rows, rolling_window,    *)
(*                                      rolling_mean, metric_complete,     *)
(*                                      plot_self_lag, plot_xy_lag         *)
(*   scripts/residuals_analysis.py      get_lagged_df                      *)
(*   ubermodel/models.py                get_model_from_dict and helpers    *)
(*                                                                         *)
(* Strings of the program are sequences of one-character strings, so that  *)
(* the regular expression and int() act on characters.  Floating point     *)
(* numbers are exact rationals <<p, q>> (q > 0); sampling frequencies are  *)
(* drawn from values a binary float holds exactly, for which the float     *)
(* quotient is whole exactly when the rational one is.  A call's outcome   *)
(* is a record: kind "return" with a value, or kind "raise" with the name  *)
(* of the Python exception.                                                *)
(***************************************************************************)
EXTENDS Integers, Sequences, FiniteSets, TLC

VARIABLES
    window,     \* window_to_rows / rolling_mean: the window label
    datafreq,   \* window_to_rows / rolling_mean: hours per sample, <<p, q>>
    rows_out,   \* window_to_rows: outcome of the call, or Pending
    data,       \* rolling_mean: the input matrix, a sequence of rows
    roll_out,   \* rolling_mean: outcome of the call, or Pending
    df,         \* get_lagged_df: the input table
    lags,       \* get_lagged_df: the list of window labels
    sorts_keys, \* pd.concat of a dict: TRUE when the pandas at hand sorts the keys
    lagged_out, \* get_lagged_df: outcomes of the calls made so far
    vec1,       \* metric_complete: first vector
    vec2,       \* metric_complete: second vector
    func_calls, \* metric_complete: the argument pairs func was called with
    metric_out, \* metric_complete: outcome of the call, or Pending
    sites,      \* plot_xy_lag: per site, whether loading fails and the data
    site_i,     \* plot_xy_lag: position of the loop over sites
    lag_i,      \* plot_xy_lag: position of the loop over lags
    lagged_x,   \* plot_xy_lag: the lagged table of the current site
    plot_data,  \* plot_xy_lag: plot_data[l][s], NaN until computed
    sweep_pc,   \* plot_xy_lag: "site", "lag", "plot" or "raised"
    model_dict, \* get_model_from_dict: the pipeline spec, a dict
    none_step,  \* make_pipeline: TRUE when the sklearn at hand accepts a None step
    sklearn_takes, \* constructors: the release-dependent keywords the sklearn at hand takes
    build_out,  \* get_model_from_dict: outcomes of the calls made so far
    model_name, \* get_model / get_model_from_def: the name asked for
    yaml_file,  \* get_model_from_yaml: data/model_search.yaml, present or not
    yaml_legacy,\* yaml.load: TRUE when the PyYAML at hand loads without a Loader
    def_out,    \* get_model_from_def: outcome of the call, or Pending
    model_out,  \* get_model: outcome of the call, or Pending
    yaml_read   \* get_model: TRUE once the call went to get_model_from_yaml

(***************************************************************************)
(* Outcomes of a call.                                                     *)
(***************************************************************************)
Pending == [kind |-> "pending", exc |-> "none", value |-> 0]

Return(v) == [kind |-> "return", exc |-> "none", value |-> v]

Raise(e) == [kind |-> "raise", exc |-> e, value |-> 0]

(***************************************************************************)
(* Characters.                                                             *)
(***************************************************************************)
DigitChars == <<"0", "1", "2", "3", "4", "5", "6", "7", "8", "9">>

Digits == {DigitChars[i] : i \in 1..Len(DigitChars)}

\* the letters [a-zA-Z] that occur in the labels of the model
Letters == {"m", "i", "n", "h", "d", "c", "u", "r", "x", "D"}

\* a character that is neither \d nor [a-zA-Z]
Others == {"!"}

DigitVal(c) == (CHOOSE i \in 1..Len(DigitChars) : DigitChars[i] = c) - 1

(***************************************************************************)
(* re.match(pattern, window).groups(), the pattern being a group of any    *)
(* number of digits followed by a group of any number of letters: the      *)
(* longest prefix of digits, then the longest run of letters after it      *)
(* (both groups are greedy and may be empty).  re.match anchors            *)
(* only the start: whatever follows the letters is not looked at.          *)
(***************************************************************************)
RECURSIVE PrefixLen(_, _)
PrefixLen(s, class) ==
    IF s = <<>> \/ Head(s) \notin class THEN 0
    ELSE 1 + PrefixLen(Tail(s), class)

MatchGroups(s) ==
    LET nd == PrefixLen(s, Digits)
        rest == SubSeq(s, nd + 1, Len(s))
        nl == PrefixLen(rest, Letters)
    IN  [n |-> SubSeq(s, 1, nd), freq |-> SubSeq(rest, 1, nl)]

(***************************************************************************)
(* int(n) of a string of decimal digits; int('') raises ValueError.        *)
(***************************************************************************)
RECURSIVE DecimalValue(_)
DecimalValue(ds) ==
    IF ds = <<>> THEN 0
    ELSE 10 * DecimalValue(SubSeq(ds, 1, Len(ds) - 1)) + DigitVal(ds[Len(ds)])

(***************************************************************************)
(* Exact rationals <<p, q>>, q > 0, standing for the floats of the code.   *)
(***************************************************************************)
IsWhole(r) == r[1] % r[2] = 0

IntOf(r) == r[1] \div r[2]

RowsMin(n, f) == <<n * f[2], 60 * f[1]>>

RowsHour(n, f) == <<n * f[2], f[1]>>

\* a slip in the day branch: the 24 hours of a day left out
RowsDay_as_hours(n, f) == <<n * f[2], f[1]>>

RowsDay(n, f) == <<n * 24 * f[2], f[1]>>

(***************************************************************************)
(* window_to_rows(window, datafreq)                                        *)
(***************************************************************************)
window_to_rows(w, f) ==
    LET g == MatchGroups(w)
    IN  IF g.n = <<>> THEN Raise("ValueError")
        ELSE LET n == DecimalValue(g.n)
                 unit == g.freq
             IN  IF unit \notin {<<"m", "i", "n">>, <<"h">>, <<"d">>}
                 THEN Raise("TypeError")
                 ELSE LET rows == IF unit = <<"m", "i", "n">> THEN RowsMin(n, f)
                                  ELSE IF unit = <<"h">> THEN RowsHour(n, f)
                                  ELSE RowsDay(n, f)
                      IN  IF ~IsWhole(rows) THEN Raise("AssertionError")
                          ELSE Return(IntOf(rows))

(***************************************************************************)
(* Numbers of the data: a rational <<p, q>> with q > 0, or NaN.            *)
(***************************************************************************)
NaN == <<0, 0>>

isfinite(x) == x[2] # 0

RatAdd(a, b) ==
    IF ~isfinite(a) \/ ~isfinite(b) THEN NaN
    ELSE <<a[1] * b[2] + b[1] * a[2], a[2] * b[2]>>

RECURSIVE RatSum(_)
RatSum(v) == IF v = <<>> THEN <<0, 1>> ELSE RatAdd(Head(v), RatSum(Tail(v)))

\* np.nanmean: the mean of the values that are not NaN
np_nanmean(v) ==
    LET kept == SelectSeq(v, isfinite)
        s == RatSum(kept)
    IN  IF kept = <<>> THEN NaN ELSE <<s[1], s[2] * Len(kept)>>

\* np.mean over the last axis: the sum divided by the count; a NaN among the
\* values makes the sum NaN, and the mean of no value is NaN
np_mean(v) ==
    LET s == RatSum(v)
    IN  IF v = <<>> \/ ~isfinite(s) THEN NaN ELSE <<s[1], s[2] * Len(v)>>

(***************************************************************************)
(* A matrix is a sequence of rows, each a sequence of cells (data[i][c]).  *)
(* Transposed(m)[c][i] = m[i][c].                                          *)
(***************************************************************************)
NumCols(m) == IF m = <<>> THEN 0 ELSE Len(m[1])

Transposed(m) == [c \in 1..NumCols(m) |-> [i \in 1..Len(m) |-> m[i][c]]]

(***************************************************************************)
(* rolling_window(a, rows), a of shape (cols, n): the strided view of      *)
(* shape (cols, n - rows + 1, rows) with view[c][j][k] = a[c][j + k]       *)
(* (0-based); as_strided refuses a negative dimension with ValueError,     *)
(* which rolling_mean tests before it calls this.                          *)
(***************************************************************************)
rolling_window(a, rows) ==
    [c \in 1..Len(a) |->
        [j \in 1..(Len(a[c]) - rows + 1) |->
            [k \in 1..rows |-> a[c][j + k - 1]]]]

(***************************************************************************)
(* rolling_mean(data, window, datafreq): result starts as all NaN, and the *)
(* means of the windows are written to result[(rows - 1):].  With rows = 0 *)
(* the out= slice is result[-1:], whose shape does not match the n + 1     *)
(* empty windows: ValueError.  With rows > n + 1 the view's shape is       *)
(* negative: ValueError.  With rows = n + 1 there is no window and the     *)
(* result stays all NaN.                                                   *)
(***************************************************************************)
rolling_mean(d, w, f) ==
    LET r == window_to_rows(w, f)
    IN  IF r.kind # "return" THEN r
        ELSE LET rows == r.value
                 n == Len(d)
             IN  IF rows = 0 \/ n - rows + 1 < 0 THEN Raise("ValueError")
                 ELSE LET view == rolling_window(Transposed(d), rows)
                      IN  Return([i \in 1..n |->
                                    [c \in 1..NumCols(d) |->
                                        IF i < rows THEN NaN
                                        ELSE np_mean(view[c][i - (rows - 1)])]])

(***************************************************************************)
(* A table (pandas DataFrame): its column labels in order, its row index   *)
(* and its values, values[i][c] being row i of column columns[c].          *)
(***************************************************************************)
Table(cols, idx, vals) == [columns |-> cols, index |-> idx, values |-> vals]

ColumnPos(cols, v) == CHOOSE c \in 1..Len(cols) : cols[c] = v

\* df[[v]].values: the n x 1 matrix of column v
ColumnValues(t, v) ==
    [i \in 1..Len(t.index) |-> <<t.values[i][ColumnPos(t.columns, v)]>>]

\* np.concatenate(ms, axis=1) of matrices with the same number of rows
RECURSIVE ConcatCols(_)
ConcatCols(ms) ==
    IF Len(ms) = 1 THEN ms[1]
    ELSE LET rest == ConcatCols(Tail(ms))
         IN  [i \in 1..Len(ms[1]) |-> ms[1][i] \o rest[i]]

\* the first element of a sequence of outcomes that is a raise, or 0
FirstRaise(outs) ==
    IF \E i \in 1..Len(outs) : outs[i].kind = "raise"
    THEN CHOOSE i \in 1..Len(outs) :
            /\ outs[i].kind = "raise"
            /\ \A j \in 1..(i - 1) : outs[j].kind # "raise"
    ELSE 0

(***************************************************************************)
(* The body of get_lagged_df's loop for one variable v:                    *)
(*   pd.DataFrame(np.concatenate([rolling_mean(df[[v]].values, l)          *)
(*                                for l in lags], axis=1),                 *)
(*                columns=lags, index=df.index)                            *)
(* rolling_mean is called with its default datafreq of 0.5.  The list      *)
(* comprehension ends at the first call that raises; np.concatenate of an  *)
(* empty list raises ValueError.                                           *)
(***************************************************************************)
DefaultFreq == <<1, 2>>

LaggedColumns(t, v, ls) ==
    LET outs == [k \in 1..Len(ls) |-> rolling_mean(ColumnValues(t, v), ls[k], DefaultFreq)]
        bad == FirstRaise(outs)
    IN  IF bad # 0 THEN outs[bad]
        ELSE IF ls = <<>> THEN Raise("ValueError")
        ELSE Return(Table(ls, t.index,
                          ConcatCols([k \in 1..Len(ls) |-> outs[k].value])))

(***************************************************************************)
(* pd.concat(data, axis=1) of a dict of tables with the same index: the    *)
(* columns become (key, column) pairs, key by key.  The keys come in the   *)
(* dict's order, or sorted when the pandas at hand sorts the keys of a     *)
(* plain dict.  pd.concat of no table raises ValueError.                   *)
(***************************************************************************)
VarOrder == <<"RelHum", "SWdown", "Tair">>

VarRank(v) == CHOOSE i \in 1..Len(VarOrder) : VarOrder[i] = v

SortedKeys(keys) ==
    LET ranks == {VarRank(keys[i]) : i \in 1..Len(keys)}
        \* the k-th smallest rank
        Nth(k) == CHOOSE r \in ranks : Cardinality({q \in ranks : q < r}) = k - 1
    IN  [k \in 1..Len(keys) |-> VarOrder[Nth(k)]]

RECURSIVE KeyedColumns(_, _)
KeyedColumns(keys, tabs) ==
    IF keys = <<>> THEN <<>>
    ELSE [k \in 1..Len(tabs[1].columns) |-> <<keys[1], tabs[1].columns[k]>>]
         \o KeyedColumns(Tail(keys), Tail(tabs))

pd_concat(keys, tabs) ==
    IF keys = <<>> THEN Raise("ValueError")
    ELSE Return(Table(KeyedColumns(keys, tabs), tabs[1].index,
                      ConcatCols([k \in 1..Len(tabs) |-> tabs[k].values])))

(***************************************************************************)
(* get_lagged_df(df, lags)                                                 *)
(***************************************************************************)
get_lagged_df(t, ls, sorted) ==
    LET outs == [c \in 1..Len(t.columns) |-> LaggedColumns(t, t.columns[c], ls)]
        bad == FirstRaise(outs)
        keys == IF sorted THEN SortedKeys(t.columns) ELSE t.columns
    IN  IF bad # 0 THEN outs[bad]
        ELSE pd_concat(keys,
                       [k \in 1..Len(keys) |->
                           outs[ColumnPos(t.columns, keys[k])].value])

\* the spec 'cur' of the window lists of the 5km27_lag preset (models.py, line
\* 86): a label like any other for get_lagged_df and rolling_mean
CurrentSpec == <<"c", "u", "r">>

(***************************************************************************)
(* metric_complete(func, vec1, vec2).  np.isfinite is false of NaN and of  *)
(* the infinities (Inf below).  func is any callable: here it returns a    *)
(* value naming its arguments, and the calls made are recorded.            *)
(***************************************************************************)
Inf == <<1, 0>>

\* a slip in the index: only the first vector's finiteness is looked at
FiniteIndex_first_only(v1, v2) == [i \in 1..Len(v1) |-> isfinite(v1[i])]

FiniteIndex(v1, v2) == [i \in 1..Len(v1) |-> isfinite(v1[i]) /\ isfinite(v2[i])]

\* vec[index] with a boolean index: the entries where index is True, in order
RECURSIVE BoolSelect(_, _)
BoolSelect(v, index) ==
    IF v = <<>> THEN <<>>
    ELSE (IF Head(index) THEN <<Head(v)>> ELSE <<>>)
         \o BoolSelect(Tail(v), Tail(index))

\* a metric value: np.nan, or what func returned for the arguments x and y
MetricNaN == [nan |-> TRUE, x |-> <<>>, y |-> <<>>]

FuncValue(x, y) == [nan |-> FALSE, x |-> x, y |-> y]

metric_complete(v1, v2) ==
    LET index == FiniteIndex(v1, v2)
    IN  IF \A i \in 1..Len(index) : ~index[i]
        THEN [out |-> Return(MetricNaN), calls |-> <<>>]
        ELSE LET x == BoolSelect(v1, index)
                 y == BoolSelect(v2, index)
             IN  [out |-> Return(FuncValue(x, y)), calls |-> <<<<x, y>>>>]

(***************************************************************************)
(* Window labels of the model.                                             *)
(***************************************************************************)
W30min == <<"3", "0", "m", "i", "n">>

W45min == <<"4", "5", "m", "i", "n">>

W90min == <<"9", "0", "m", "i", "n">>

W150min == <<"1", "5", "0", "m", "i", "n">>

W0h == <<"0", "h">>

W1h == <<"1", "h">>

W2h == <<"2", "h">>

W3h == <<"3", "h">>

W3x == <<"3", "x">>

(***************************************************************************)
(* The series of a site.  The longest window of the sweep needs a year of  *)
(* half-hourly rows, so a series is held run by run: a sequence of runs    *)
(* [v, n], the value v repeated n times.  The operators below are          *)
(* rolling_mean and metric_complete again, computed on runs: position for  *)
(* position they give what the operators above give on the series written  *)
(* out.  The values of a series are whole numbers or NaN.                  *)
(***************************************************************************)
Run(v, n) == [v |-> v, n |-> n]

MinOf(a, b) == IF a <= b THEN a ELSE b

MaxOf(a, b) == IF a >= b THEN a ELSE b

RECURSIVE RunsLen(_)
RunsLen(s) == IF s = <<>> THEN 0 ELSE Head(s).n + RunsLen(Tail(s))

\* the same series with no empty run and no two neighbours of one value
RECURSIVE Joined(_)
Joined(s) ==
    IF s = <<>> THEN <<>>
    ELSE IF Head(s).n = 0 THEN Joined(Tail(s))
    ELSE LET rest == Joined(Tail(s))
         IN  IF rest # <<>> /\ Head(rest).v = Head(s).v
             THEN <<Run(Head(s).v, Head(s).n + Head(rest).n)>> \o Tail(rest)
             ELSE <<Head(s)>> \o rest

\* a vector written out, as runs
RunsOf(v) == Joined([i \in 1..Len(v) |-> Run(v[i], 1)])

\* the position (1-based) of the last row of run k
RECURSIVE RunEnd(_, _)
RunEnd(s, k) == IF k = 0 THEN 0 ELSE RunEnd(s, k - 1) + s[k].n

\* how many rows of run k lie in lo..hi
Overlap(s, k, lo, hi) ==
    MaxOf(0, MinOf(hi, RunEnd(s, k)) - MaxOf(lo, RunEnd(s, k - 1) + 1) + 1)

WindowRuns(s, lo, hi) == {k \in 1..Len(s) : Overlap(s, k, lo, hi) > 0}

\* np.mean of the rows lo..hi: NaN when one of them is not finite
WindowMean(s, lo, hi) ==
    LET total == RatSum([k \in 1..Len(s) |->
                            IF Overlap(s, k, lo, hi) = 0 THEN <<0, 1>>
                            ELSE <<s[k].v[1] * Overlap(s, k, lo, hi), s[k].v[2]>>])
    IN  IF \E k \in WindowRuns(s, lo, hi) : ~isfinite(s[k].v) THEN NaN
        ELSE <<total[1], total[2] * (hi - lo + 1)>>

\* the last row j >= i, j <= n, up to which the window of `rows` rows ending
\* at j is known to have the mean of the window ending at i: while a row that
\* is not finite stays in the window, or while the window lies in one run
SameUntil(s, rows, i, n) ==
    LET lo == i - rows + 1
        missing == {k \in WindowRuns(s, lo, i) : ~isfinite(s[k].v)}
        first == CHOOSE k \in 1..Len(s) : RunEnd(s, k - 1) < lo /\ lo <= RunEnd(s, k)
        last_missing == CHOOSE k \in missing : \A j \in missing : j <= k
    IN  IF missing # {} THEN MinOf(n, RunEnd(s, last_missing) + rows - 1)
        ELSE IF i <= RunEnd(s, first) THEN MinOf(n, RunEnd(s, first))
        ELSE i

\* np.mean(rolling_window(data.T, rows), -1) for the windows ending at i..n
RECURSIVE WindowMeans(_, _, _, _)
WindowMeans(s, rows, i, n) ==
    IF i > n THEN <<>>
    ELSE LET j == SameUntil(s, rows, i, n)
         IN  <<Run(WindowMean(s, i - rows + 1, i), j - i + 1)>>
             \o WindowMeans(s, rows, j + 1, n)

\* rolling_mean(data, window, datafreq) of a one-column array, on runs
rolling_mean_runs(s, w, f) ==
    LET r == window_to_rows(w, f)
    IN  IF r.kind # "return" THEN r
        ELSE LET rows == r.value
                 n == RunsLen(s)
             IN  IF rows = 0 \/ n - rows + 1 < 0 THEN Raise("ValueError")
                 ELSE Return(Joined(<<Run(NaN, rows - 1)>>
                                    \o WindowMeans(s, rows, rows, n)))

\* two series of one length cut at the same rows: runs [a, b, n]
RECURSIVE Aligned(_, _)
Aligned(s1, s2) ==
    IF s1 = <<>> \/ s2 = <<>> THEN <<>>
    ELSE LET k == MinOf(Head(s1).n, Head(s2).n)
             r1 == IF Head(s1).n = k THEN Tail(s1)
                   ELSE <<Run(Head(s1).v, Head(s1).n - k)>> \o Tail(s1)
             r2 == IF Head(s2).n = k THEN Tail(s2)
                   ELSE <<Run(Head(s2).v, Head(s2).n - k)>> \o Tail(s2)
         IN  <<[a |-> Head(s1).v, b |-> Head(s2).v, n |-> k]>> \o Aligned(r1, r2)

\* metric_complete(func, vec1, vec2) on runs: the rows where both are finite
metric_complete_runs(v1, v2) ==
    LET kept == SelectSeq(Aligned(v1, v2), LAMBDA p : isfinite(p.a) /\ isfinite(p.b))
    IN  IF kept = <<>> THEN Return(MetricNaN)
        ELSE Return(FuncValue(Joined([k \in 1..Len(kept) |-> Run(kept[k].a, kept[k].n)]),
                              Joined([k \in 1..Len(kept) |-> Run(kept[k].b, kept[k].n)])))

(***************************************************************************)
(* plot_xy_lag(var_y, var_x, metric, sites).  get_lags() is the standard   *)
(* sweep of 19 windows from 30min to 365d.  A site is [fails, x, y]:       *)
(* whether get_data raises RuntimeError for it, and its two series, of one *)
(* length.                                                                 *)
(***************************************************************************)
get_lags ==
    <<W30min,
      W1h, W2h, W3h, <<"4", "h">>, <<"5", "h">>, <<"6", "h">>, <<"1", "2", "h">>,
      <<"1", "d">>, <<"2", "d">>, <<"3", "d">>, <<"5", "d">>, <<"7", "d">>,
      <<"1", "4", "d">>,
      <<"3", "0", "d">>, <<"6", "0", "d">>, <<"9", "0", "d">>,
      <<"1", "8", "0", "d">>, <<"3", "6", "5", "d">>>>

\* pd.DataFrame(np.nan, index=lags, columns=sites)
EmptyPlotData(nsites) == [l \in 1..Len(get_lags) |-> [s \in 1..nsites |-> MetricNaN]]

\* pd.DataFrame(np.concatenate([rolling_mean(data_x[[var_x]].values, l)
\*                              for l in lags], axis=1), columns=lags):
\* the columns as series, or the first exception of the comprehension
LaggedX(x) ==
    LET outs == [l \in 1..Len(get_lags) |-> rolling_mean_runs(x, get_lags[l], DefaultFreq)]
        bad == FirstRaise(outs)
    IN  IF bad # 0 THEN outs[bad]
        ELSE Return([columns |-> get_lags,
                     series |-> [l \in 1..Len(get_lags) |-> outs[l].value]])

\* lagged_x[l]: the column of window number l
LagColumn(t, l) == t.series[l]

(***************************************************************************)
(* ubermodel/models.py.  A dict is a function from its keys; an estimator  *)
(* is [cls, args, parts]: its class, its constructor's keyword arguments   *)
(* and the estimators it holds (a pipeline's steps, a wrapper's inner      *)
(* model).  NoneObj is Python's None.                                      *)
(***************************************************************************)
EmptyDict == <<>>

Has(d, k) == k \in DOMAIN d

Est(cls, args, parts) == [cls |-> cls, args |-> args, parts |-> parts]

NoneObj == Est("None", EmptyDict, <<>>)

get_scaler(scaler) ==
    IF scaler = "standard" THEN Est("StandardScaler", EmptyDict, <<>>)
    ELSE IF scaler = "minmax" THEN Est("MinMaxScaler", EmptyDict, <<>>)
    ELSE NoneObj

get_pca == Est("PCA", EmptyDict, <<>>)

(***************************************************************************)
(* A constructor called with the keywords of a dict.  A constructor of the *)
(* library takes its own parameters only, and a keyword that is none of    *)
(* them is a TypeError.  Which keywords are parameters depends on the      *)
(* release of the library: CoreArgs are those of every release from 0.18   *)
(* on, ReleaseArgs those that some releases have and others lack, and a    *)
(* keyword in neither is a parameter in no release.  `takes` is the set of *)
(* release-dependent keywords that the library at hand takes; AnyKeyword   *)
(* in it stands for the KNeighborsRegressor of the releases whose          *)
(* constructor passes every further keyword on.                            *)
(***************************************************************************)
CoreArgs(cls) ==
    IF cls = "LinearRegression" THEN {"fit_intercept", "copy_X", "n_jobs"}
    ELSE IF cls = "SGDRegressor"
    THEN {"loss", "penalty", "alpha", "l1_ratio", "fit_intercept", "shuffle",
          "verbose", "epsilon", "random_state", "learning_rate", "eta0", "power_t",
          "warm_start", "average"}
    ELSE IF cls = "SVR"
    THEN {"kernel", "degree", "gamma", "coef0", "tol", "C", "epsilon", "shrinking",
          "cache_size", "verbose", "max_iter"}
    ELSE IF cls = "DecisionTreeRegressor"
    THEN {"criterion", "splitter", "max_depth", "min_samples_split", "min_samples_leaf",
          "min_weight_fraction_leaf", "max_features", "random_state", "max_leaf_nodes"}
    ELSE IF cls = "ExtraTreesRegressor"
    THEN {"n_estimators", "criterion", "max_depth", "min_samples_split",
          "min_samples_leaf", "min_weight_fraction_leaf", "max_features",
          "max_leaf_nodes", "bootstrap", "oob_score", "n_jobs", "random_state",
          "verbose", "warm_start"}
    ELSE IF cls = "KNeighborsRegressor"
    THEN {"n_neighbors", "weights", "algorithm", "leaf_size", "p", "metric",
          "metric_params", "n_jobs"}
    ELSE IF cls = "MLPRegressor"
    THEN {"hidden_layer_sizes", "activation", "solver", "alpha", "batch_size",
          "learning_rate", "learning_rate_init", "power_t", "max_iter", "shuffle",
          "random_state", "tol", "verbose", "warm_start", "momentum",
          "nesterovs_momentum", "early_stopping", "validation_fraction", "beta_1",
          "beta_2", "epsilon"}
    ELSE IF cls = "KMeans"
    THEN {"n_clusters", "init", "n_init", "max_iter", "tol", "verbose", "random_state",
          "copy_x", "algorithm"}
    ELSE IF cls = "PolynomialFeatures" THEN {"degree", "interaction_only", "include_bias"}
    ELSE {}

ReleaseArgs(cls) ==
    IF cls = "LinearRegression" THEN {"normalize", "positive"}
    ELSE IF cls = "SGDRegressor"
    THEN {"n_iter", "max_iter", "tol", "early_stopping", "validation_fraction",
          "n_iter_no_change"}
    ELSE IF cls = "DecisionTreeRegressor"
    THEN {"presort", "min_impurity_split", "min_impurity_decrease", "ccp_alpha",
          "monotonic_cst"}
    ELSE IF cls = "ExtraTreesRegressor"
    THEN {"min_impurity_split", "min_impurity_decrease", "ccp_alpha", "max_samples",
          "monotonic_cst"}
    ELSE IF cls = "MLPRegressor" THEN {"n_iter_no_change", "max_fun"}
    ELSE IF cls = "KMeans" THEN {"precompute_distances", "n_jobs"}
    ELSE IF cls = "PolynomialFeatures" THEN {"order"}
    ELSE {}

AnyKeyword == "**kwargs"

Takes(cls, kw, takes) ==
    \/ kw \in CoreArgs(cls)
    \/ kw \in ReleaseArgs(cls) /\ kw \in takes
    \/ cls = "KNeighborsRegressor" /\ AnyKeyword \in takes

Construct(cls, kwargs, takes) ==
    IF \A kw \in DOMAIN kwargs : Takes(cls, kw, takes)
    THEN Return(Est(cls, kwargs, <<>>))
    ELSE Raise("TypeError")

get_poly(kwargs, takes) == Construct("PolynomialFeatures", kwargs, takes)

ModelClasses ==
    {"LinearRegression", "SGDRegressor", "SVR", "DecisionTreeRegressor",
     "ExtraTreesRegressor", "KNeighborsRegressor", "MLPRegressor"}

get_model_class(class_name, kwargs, takes) ==
    IF class_name \in ModelClasses THEN Construct(class_name, kwargs, takes)
    ELSE Raise("Exception")

\* both names give a KMeans; any other name falls off the end: None
get_clusterer(name, kwargs, takes) ==
    IF name = "KMeans" THEN Construct("KMeans", kwargs, takes)
    ELSE IF name = "MiniBatchKMeans" THEN Construct("KMeans", kwargs, takes)
    ELSE Return(NoneObj)

ModelByCluster(clusterer, model) == Est("ModelByCluster", EmptyDict, <<clusterer, model>>)

get_lagger(pipe, kwargs) == Est("LagWrapper", kwargs, <<pipe>>)

get_markov_wrapper(pipe, kwargs) == Est("MarkovWrapper", kwargs, <<pipe>>)

\* sklearn's make_pipeline: a None among the transforms is a passthrough step
\* for an sklearn that accepts it, and a TypeError for one that does not
make_pipeline(pipe_list, accepts_none) ==
    IF ~accepts_none /\ \E i \in 1..(Len(pipe_list) - 1) : pipe_list[i] = NoneObj
    THEN Raise("TypeError")
    ELSE Return(Est("Pipeline", EmptyDict, pipe_list))

MET_VARS == <<"SWdown", "Tair", "LWdown", "Wind", "Rainf", "PSurf", "Qair">>

(***************************************************************************)
(* Lines 116-129: the transforms of the spec, statement by statement.      *)
(* Dicts are objects: the heap maps the name of an object to the items it  *)
(* holds, a variable of the code holds the name of an object, and pop      *)
(* removes a key from the object its receiver names.  The objects are the  *)
(* dict that model_dict['transforms'] holds and, once line 118 has run,    *)
(* the one that its copy() made.  The statements of the function write to  *)
(* no other dict: the nested dicts args, clusterregression, lag and markov *)
(* are unpacked as keywords into constructors, which makes a new dict of   *)
(* them, and forcing_vars is read and assigned to an attribute of the      *)
(* estimator.                                                              *)
(***************************************************************************)
SpecTransforms == "model_dict['transforms']"

LocalCopy == "model_dict['transforms'].copy()"

\* transforms = src, with no copy: the variable names the object src itself
dict_alias(heap, src, new) == [ref |-> src, heap |-> heap]

\* transforms = src.copy(): a new object with the items of src (the values
\* themselves are shared), and the variable names the new object
dict_copy(heap, src, new) == [ref |-> new, heap |-> heap @@ (new :> heap[src])]

\* ref.pop(k): the object that ref names loses the key k
dict_pop(heap, ref, k) ==
    [heap EXCEPT ![ref] = [j \in (DOMAIN heap[ref]) \ {k} |-> heap[ref][j]]]

\* line 118: the state of the block when `transforms` has been bound
BoundTransforms(md) ==
    LET bound == dict_copy(SpecTransforms :> md["transforms"], SpecTransforms, LocalCopy)
    IN  [heap |-> bound.heap, ref |-> bound.ref, pipe_list |-> <<>>, out |-> Pending]

\* lines 119-121
PopScaler(st) ==
    IF Has(st.heap[st.ref], "scaler")
    THEN [st EXCEPT !.heap = dict_pop(st.heap, st.ref, "scaler"),
                    !.pipe_list = Append(@, get_scaler(st.heap[st.ref]["scaler"]))]
    ELSE st

\* lines 122-124
PopPca(st) ==
    IF Has(st.heap[st.ref], "pca")
    THEN [st EXCEPT !.heap = dict_pop(st.heap, st.ref, "pca"),
                    !.pipe_list = Append(@, get_pca)]
    ELSE st

\* lines 125-127: the pop comes first, then the constructor, which may raise
PopPoly(st, takes) ==
    IF Has(st.heap[st.ref], "poly")
    THEN LET poly == get_poly(st.heap[st.ref]["poly"], takes)
         IN  [st EXCEPT !.heap = dict_pop(st.heap, st.ref, "poly"),
                        !.pipe_list = IF poly.kind = "raise" THEN @
                                      ELSE Append(@, poly.value),
                        !.out = IF poly.kind = "raise" THEN poly ELSE @]
    ELSE st

\* lines 128-129: what is left in `transforms` is unknown
CheckLeftover(st) ==
    IF st.out.kind # "raise" /\ st.heap[st.ref] # EmptyDict
    THEN [st EXCEPT !.out = Raise("Exception")]
    ELSE st

\* lines 114-129: the heap, pipe_list and a raised exception, if any
RunTransforms(md, takes) ==
    IF ~Has(md, "transforms")
    THEN [heap |-> EmptyDict, ref |-> "none", pipe_list |-> <<>>, out |-> Pending]
    ELSE CheckLeftover(PopPoly(PopPca(PopScaler(BoundTransforms(md))), takes))

\* model_dict as the call leaves it: its 'transforms' holds the object it
\* held, with the items that the object has in the heap after the block
ModelDictAfter(md, takes) ==
    IF Has(md, "transforms")
    THEN [k \in DOMAIN md |->
            IF k = "transforms" THEN RunTransforms(md, takes).heap[SpecTransforms]
            ELSE md[k]]
    ELSE md

(***************************************************************************)
(* get_model_from_dict(model_dict), lines 111-161                          *)
(***************************************************************************)
BaseModel(md, takes) ==
    IF ~Has(md, "class") THEN Raise("KeyError")
    ELSE IF Has(md, "args") THEN get_model_class(md["class"], md["args"], takes)
    ELSE get_model_class(md["class"], EmptyDict, takes)

Clustered(md, model, takes) ==
    IF ~Has(md, "clusterregression") THEN Return(model)
    ELSE LET cr == md["clusterregression"]
         IN  IF ~Has(cr, "class") \/ ~Has(cr, "args") THEN Raise("KeyError")
             ELSE LET clusterer == get_clusterer(cr["class"], cr["args"], takes)
                  IN  IF clusterer.kind = "raise" THEN clusterer
                      ELSE Return(ModelByCluster(clusterer.value, model))

Wrapped(md, pipe) ==
    IF Has(md, "lag") THEN get_lagger(pipe, md["lag"])
    ELSE IF Has(md, "markov") THEN get_markov_wrapper(pipe, md["markov"])
    ELSE pipe

WithForcingVars(md, pipe) ==
    [est |-> pipe,
     forcing_vars |-> IF Has(md, "forcing_vars") THEN md["forcing_vars"] ELSE MET_VARS]

get_model_from_dict(md, accepts_none, takes) ==
    LET block == RunTransforms(md, takes)
        model == BaseModel(md, takes)
    IN  IF block.out.kind = "raise" THEN block.out
        ELSE IF model.kind = "raise" THEN model
        ELSE LET cl == Clustered(md, model.value, takes)
             IN  IF cl.kind = "raise" THEN cl
                 ELSE LET pipe == make_pipeline(Append(block.pipe_list, cl.value),
                                                accepts_none)
                      IN  IF pipe.kind = "raise" THEN pipe
                          ELSE Return(WithForcingVars(md, Wrapped(md, pipe.value)))

(***************************************************************************)
(* The estimators that get_model_from_def constructs directly.             *)
(***************************************************************************)
LinearRegression == Est("LinearRegression", EmptyDict, <<>>)

MiniBatchKMeans(n_clusters) == Est("MiniBatchKMeans", [n_clusters |-> n_clusters], <<>>)

MissingDataWrapper(model) == Est("MissingDataWrapper", EmptyDict, <<model>>)

LagAverageWrapper(vl, model) == Est("LagAverageWrapper", [var_lags |-> vl], <<model>>)

\* the class objects (not their names) that the 3km27_lag preset puts in its dict
LinearRegressionClass == "<class 'sklearn.linear_model.LinearRegression'>"

MiniBatchKMeansClass == "<class 'sklearn.cluster.MiniBatchKMeans'>"

\* lines 70-81: the dict of the 3km27_lag preset
Dict3km27Lag ==
    [variable |-> <<"SWdown", "Tair", "RelHum">>,
     clusterregression |-> [class |-> MiniBatchKMeansClass, args |-> [n_clusters |-> 27]],
     class |-> LinearRegressionClass,
     lag |-> [periods |-> 1, freq |-> "D"]]

\* lines 85-87: the ordered variable -> windows pairs of the 5km27_lag preset
VarLags5km27 ==
    <<<<"SWdown", <<"cur", "2d", "7d">>>>,
      <<"Tair", <<"cur", "2d", "7d">>>>,
      <<"RelHum", <<"cur", "2d", "7d">>>>,
      <<"Wind", <<"cur", "2d", "7d">>>>,
      <<"Rainf", <<"cur", "2d", "7d", "30d", "90d">>>>>>

\* a model object with the attribute set on it
WithVars(est, fv) == [est |-> est, forcing_vars |-> fv]

(***************************************************************************)
(* get_model_from_def(name), lines 51-96.  The five tests of `name` are    *)
(* independent ifs and the else belongs to the last one only.              *)
(*                                                                         *)
(* AssignedModel is the local `model` after the first four ifs (lines      *)
(* 58-83): the model of the branch that matched, an exception raised in    *)
(* that branch, or Pending while `model` is still unbound.                 *)
(***************************************************************************)
AssignedModel(nm, accepts_none, takes) ==
    IF nm = "1lin"
    THEN Return(WithVars(MissingDataWrapper(LinearRegression), <<"SWdown">>))
    ELSE IF nm = "3km27"
    THEN Return(WithVars(MissingDataWrapper(ModelByCluster(MiniBatchKMeans(27),
                                                           LinearRegression)),
                         <<"SWdown", "Tair", "RelHum">>))
    ELSE IF nm = "3km233"
    THEN Return(WithVars(MissingDataWrapper(ModelByCluster(MiniBatchKMeans(233),
                                                           LinearRegression)),
                         <<"SWdown", "Tair", "RelHum">>))
    ELSE IF nm = "3km27_lag"
    THEN LET inner == get_model_from_dict(Dict3km27Lag, accepts_none, takes)
         IN  IF inner.kind = "raise" THEN inner
             ELSE Return(WithVars(MissingDataWrapper(inner.value.est),
                                  <<"SWdown", "Tair", "RelHum">>))
    ELSE Pending

\* lines 84-92: the model of the last if
Model5km27Lag ==
    WithVars(LagAverageWrapper(VarLags5km27,
                               MissingDataWrapper(ModelByCluster(MiniBatchKMeans(27),
                                                                 LinearRegression))),
             <<"SWdown", "Tair", "RelHum", "Wind", "Rainf">>)

\* the else of line 93 takes every name but 5km27_lag, whatever was assigned
\* to `model` above; Exception("unknown model")
get_model_from_def(nm, accepts_none, takes) ==
    LET assigned == AssignedModel(nm, accepts_none, takes)
    IN  IF assigned.kind = "raise" THEN assigned
        ELSE IF nm = "5km27_lag" THEN Return(Model5km27Lag)
        ELSE Raise("Exception")

(***************************************************************************)
(* get_model_from_yaml(name), lines 99-108.  yf is the file: whether it    *)
(* exists, and the mapping it holds.  open() of a missing file raises      *)
(* FileNotFoundError; yaml.load(f) with no Loader is a TypeError for a     *)
(* PyYAML that requires one; a name the mapping lacks is a KeyError.       *)
(***************************************************************************)
get_model_from_yaml(nm, yf, legacy, accepts_none, takes) ==
    IF ~yf.exists THEN Raise("FileNotFoundError")
    ELSE IF ~legacy THEN Raise("TypeError")
    ELSE IF ~Has(yf.models, nm) THEN Raise("KeyError")
    ELSE get_model_from_dict(yf.models[nm], accepts_none, takes)

(***************************************************************************)
(* get_model(name), lines 29-48: `out` is the outcome and `consulted`      *)
(* tells whether get_model_from_yaml was called.  Every exception that     *)
(* get_model_from_def can raise is an Exception, so each one is caught;    *)
(* of the exceptions of get_model_from_yaml only KeyError is caught, and   *)
(* sys.exit raises SystemExit.  None of the models has a `name`, so the    *)
(* name asked for is set on the model returned.                            *)
(***************************************************************************)
WithName(m, nm) == [est |-> m.est, forcing_vars |-> m.forcing_vars, name |-> nm]

get_model(nm, yf, legacy, accepts_none, takes) ==
    LET from_def == get_model_from_def(nm, accepts_none, takes)
        from_yaml == get_model_from_yaml(nm, yf, legacy, accepts_none, takes)
    IN  IF from_def.kind = "return"
        THEN [out |-> Return(WithName(from_def.value, nm)), consulted |-> FALSE]
        ELSE [out |-> IF from_yaml.kind = "return"
                      THEN Return(WithName(from_yaml.value, nm))
                      ELSE IF from_yaml.exc = "KeyError" THEN Raise("SystemExit")
                      ELSE from_yaml,
              consulted |-> TRUE]

(***************************************************************************)
(* The state, by component.  A specification below runs one component and  *)
(* leaves the others idle.                                                 *)
(***************************************************************************)
windowVars == <<window, datafreq, rows_out>>

rollVars == <<data, roll_out>>

dfVars == <<df, lags, sorts_keys, lagged_out>>

metricVars == <<vec1, vec2, func_calls, metric_out>>

sweepVars == <<sites, site_i, lag_i, lagged_x, plot_data, sweep_pc>>

buildVars == <<model_dict, none_step, sklearn_takes, build_out>>

defVars == <<model_name, yaml_file, yaml_legacy, def_out, model_out, yaml_read>>

vars == <<windowVars, rollVars, dfVars, metricVars, sweepVars, buildVars, defVars>>

EmptyTable == Table(<<>>, <<>>, <<>>)

WindowIdle == window = <<>> /\ datafreq = <<1, 2>> /\ rows_out = Pending

RollIdle == data = <<>> /\ roll_out = Pending

DfIdle ==
    /\ df = EmptyTable /\ lags = <<>> /\ sorts_keys = FALSE /\ lagged_out = <<>>

MetricIdle == vec1 = <<>> /\ vec2 = <<>> /\ func_calls = <<>> /\ metric_out = Pending

SweepIdle ==
    /\ sites = <<>> /\ site_i = 0 /\ lag_i = 0 /\ lagged_x = EmptyTable
    /\ plot_data = <<>> /\ sweep_pc = "idle"

BuildIdle ==
    /\ model_dict = EmptyDict /\ none_step = FALSE /\ sklearn_takes = {}
    /\ build_out = <<>>

NoYamlFile == [exists |-> FALSE, models |-> EmptyDict]

DefIdle ==
    /\ model_name = "" /\ yaml_file = NoYamlFile /\ yaml_legacy = FALSE
    /\ def_out = Pending /\ model_out = Pending /\ yaml_read = FALSE

(***************************************************************************)
(* Inputs of window_to_rows: a label is a run of digits, a unit word and a *)
(* tail, each possibly empty, so that well-formed labels, labels with no   *)
(* magnitude, unknown units and trailing text all occur.                   *)
(***************************************************************************)
MaxDigits == 2

MaxTail == 1

SeqsUpTo(S, n) == UNION {[1..k -> S] : k \in 0..n}

LabelDigits == {"0", "3", "4", "5"}

UnitWords ==
    {<<>>, <<"m", "i", "n">>, <<"h">>, <<"d">>, <<"m">>, <<"h", "d">>,
     <<"x">>, <<"D">>, CurrentSpec}

TailChars == {"!", "3", "h"}

WindowLabels ==
    {ds \o u \o t : ds \in SeqsUpTo(LabelDigits, MaxDigits), u \in UnitWords,
                    t \in SeqsUpTo(TailChars, MaxTail)}

\* 0.25, 0.5, 1 and 1.5 hours per sample
DataFreqs == {<<1, 4>>, <<1, 2>>, <<1, 1>>, <<3, 2>>}

InitWindow ==
    /\ window \in WindowLabels
    /\ datafreq \in DataFreqs
    /\ rows_out = Pending
    /\ RollIdle /\ DfIdle /\ MetricIdle /\ SweepIdle /\ BuildIdle /\ DefIdle

CallWindowToRows ==
    /\ rows_out = Pending
    /\ rows_out' = window_to_rows(window, datafreq)
    /\ UNCHANGED <<window, datafreq, rollVars, dfVars, metricVars, sweepVars, buildVars, defVars>>

SpecWindow == InitWindow /\ [][CallWindowToRows]_vars

(***************************************************************************)
(* Inputs of rolling_mean: matrices of up to MaxRows rows with one or two  *)
(* columns, cells 1, 3 or NaN.                                             *)
(***************************************************************************)
MaxRows == 3

CellValues == {<<1, 1>>, <<3, 1>>, NaN}

ColumnLists == {<<>>, <<"SWdown">>, <<"Tair", "SWdown">>}

Matrices(n, c) == [1..n -> [1..c -> CellValues]]

RollLabels == {W30min, W1h, W90min, W2h, W150min, W0h, W45min, CurrentSpec, W3x}

RollFreqs == {<<1, 2>>, <<1, 1>>}

InitRolling ==
    /\ window \in RollLabels
    /\ datafreq \in RollFreqs
    /\ rows_out = Pending
    /\ \E n \in 1..MaxRows, cols \in ColumnLists \ {<<>>} :
          \E vals \in Matrices(n, Len(cols)) : data = vals
    /\ roll_out = Pending
    /\ DfIdle /\ MetricIdle /\ SweepIdle /\ BuildIdle /\ DefIdle

CallRollingMean ==
    /\ roll_out = Pending
    /\ roll_out' = rolling_mean(data, window, datafreq)
    /\ UNCHANGED <<windowVars, data, dfVars, metricVars, sweepVars, buildVars, defVars>>

SpecRolling == InitRolling /\ [][CallRollingMean]_vars

(***************************************************************************)
(* Inputs of get_lagged_df: tables of up to MaxRows rows on a half-hourly  *)
(* index, and lists of window labels.                                      *)
(***************************************************************************)
TimeIndex(n) == [i \in 1..n |-> 30 * (i - 1)]

LagLists ==
    {<<>>, <<W30min>>, <<W1h, W30min>>, <<W30min, W1h, W2h>>, <<W1h, W1h>>,
     <<CurrentSpec, W1h>>, <<W30min, CurrentSpec>>}

MaxCalls == 2

InitLagged ==
    /\ \E cols \in ColumnLists, n \in 1..MaxRows :
          \E vals \in Matrices(n, Len(cols)) : df = Table(cols, TimeIndex(n), vals)
    /\ lags \in LagLists
    /\ sorts_keys \in BOOLEAN
    /\ lagged_out = <<>>
    /\ WindowIdle /\ RollIdle /\ MetricIdle /\ SweepIdle /\ BuildIdle /\ DefIdle

CallGetLaggedDf ==
    /\ Len(lagged_out) < MaxCalls
    /\ lagged_out' = Append(lagged_out, get_lagged_df(df, lags, sorts_keys))
    /\ UNCHANGED <<windowVars, rollVars, df, lags, sorts_keys, metricVars, sweepVars,
                   buildVars, defVars>>

SpecLagged == InitLagged /\ [][CallGetLaggedDf]_vars

(***************************************************************************)
(* Inputs of metric_complete: two vectors of the same length.              *)
(***************************************************************************)
MaxVecLen == 3

VecValues == {<<1, 1>>, <<2, 1>>, NaN, Inf}

InitMetric ==
    /\ \E n \in 0..MaxVecLen :
          \E v1 \in [1..n -> VecValues], v2 \in [1..n -> VecValues] : vec1 = v1 /\ vec2 = v2
    /\ func_calls = <<>>
    /\ metric_out = Pending
    /\ WindowIdle /\ RollIdle /\ DfIdle /\ SweepIdle /\ BuildIdle /\ DefIdle

CallMetricComplete ==
    /\ metric_out = Pending
    /\ LET r == metric_complete(vec1, vec2)
       IN  /\ metric_out' = r.out
           /\ func_calls' = func_calls \o r.calls
    /\ UNCHANGED <<windowVars, rollVars, dfVars, vec1, vec2, sweepVars, buildVars, defVars>>

SpecMetric == InitMetric /\ [][CallMetricComplete]_vars

(***************************************************************************)
(* plot_xy_lag: the loop over sites (lines 155-167) and, in it, the loop   *)
(* over lags.  The try block holds the two get_data calls only and catches *)
(* RuntimeError only; any other exception leaves the function.  The cell   *)
(* assignment is that of a pandas that has DataFrame.ix, as the code       *)
(* expects.                                                                *)
(***************************************************************************)
MaxSites == 2

\* the x series of a site of n rows: 1, 2, ..., n
XSeries(n) == [i \in 1..n |-> <<i, 1>>]

FailedSite == [fails |-> TRUE, x |-> <<>>, y |-> <<>>]

Site(x, y) == [fails |-> FALSE, x |-> x, y |-> y]

\* the rows of the longest window of the sweep: 365 days of half hours
YearRows == window_to_rows(get_lags[Len(get_lags)], DefaultFreq).value

DayRows == window_to_rows(<<"1", "d">>, DefaultFreq).value

\* sites of a few rows, and sites of about a year of rows: a full year, a
\* year but one row, a year but two rows, a year that starts with a day of
\* missing x and ends with a day of missing y, a year of missing y, and a
\* year whose x changes in its last two rows
SiteChoices ==
    {FailedSite}
    \cup {Site(RunsOf(XSeries(n)), <<Run(<<2, 1>>, n)>>) : n \in 1..MaxRows}
    \cup {Site(<<Run(<<3, 1>>, YearRows)>>, <<Run(<<2, 1>>, YearRows)>>),
          Site(<<Run(<<3, 1>>, YearRows - 1)>>, <<Run(<<2, 1>>, YearRows - 1)>>),
          Site(<<Run(<<3, 1>>, YearRows - 2)>>, <<Run(<<2, 1>>, YearRows - 2)>>),
          Site(<<Run(NaN, DayRows), Run(<<3, 1>>, YearRows - DayRows)>>,
               <<Run(<<2, 1>>, YearRows - DayRows), Run(NaN, DayRows)>>),
          Site(<<Run(<<3, 1>>, YearRows)>>, <<Run(NaN, YearRows)>>),
          Site(<<Run(<<1, 1>>, YearRows - 2), Run(<<2, 1>>, 1), Run(<<4, 1>>, 1)>>,
               <<Run(<<2, 1>>, YearRows)>>)}

InitSweep ==
    /\ \E k \in 1..MaxSites : \E ss \in [1..k -> SiteChoices] : sites = ss
    /\ site_i = 1
    /\ lag_i = 0
    /\ lagged_x = EmptyTable
    /\ plot_data = EmptyPlotData(Len(sites))
    /\ sweep_pc = "site"
    /\ WindowIdle /\ RollIdle /\ DfIdle /\ MetricIdle /\ BuildIdle /\ DefIdle

SweepFrame == UNCHANGED <<windowVars, rollVars, dfVars, metricVars, buildVars, defVars, sites>>

\* get_data raises RuntimeError: "Loading data for ... failed, skipping"; continue
LoadFails ==
    /\ sweep_pc = "site" /\ site_i <= Len(sites)
    /\ sites[site_i].fails
    /\ site_i' = site_i + 1
    /\ UNCHANGED <<lag_i, lagged_x, plot_data, sweep_pc>>
    /\ SweepFrame

\* line 163 raises: the exception leaves plot_xy_lag
LaggedRaises ==
    /\ sweep_pc = "site" /\ site_i <= Len(sites)
    /\ ~sites[site_i].fails
    /\ LaggedX(sites[site_i].x).kind = "raise"
    /\ sweep_pc' = "raised"
    /\ UNCHANGED <<site_i, lag_i, lagged_x, plot_data>>
    /\ SweepFrame

\* line 163 returns the lagged table of the site
LaggedBuilt ==
    /\ sweep_pc = "site" /\ site_i <= Len(sites)
    /\ ~sites[site_i].fails
    /\ LaggedX(sites[site_i].x).kind = "return"
    /\ lagged_x' = LaggedX(sites[site_i].x).value
    /\ lag_i' = 1
    /\ sweep_pc' = "lag"
    /\ UNCHANGED <<site_i, plot_data>>
    /\ SweepFrame

\* line 167: plot_data.ix[l, site] = metric_complete(func, lagged_x[l], data_y)
ComputeCell ==
    /\ sweep_pc = "lag" /\ lag_i <= Len(get_lags)
    /\ plot_data' =
          [plot_data EXCEPT ![lag_i][site_i] =
              metric_complete_runs(LagColumn(lagged_x, lag_i), sites[site_i].y).value]
    /\ lag_i' = lag_i + 1
    /\ UNCHANGED <<site_i, lagged_x, sweep_pc>>
    /\ SweepFrame

\* the loop over lags is over: the next site
NextSite ==
    /\ sweep_pc = "lag" /\ lag_i > Len(get_lags)
    /\ site_i' = site_i + 1
    /\ sweep_pc' = "site"
    /\ UNCHANGED <<lag_i, lagged_x, plot_data>>
    /\ SweepFrame

\* the loop over sites is over: line 169, the plot
SweepDone ==
    /\ sweep_pc = "site" /\ site_i > Len(sites)
    /\ sweep_pc' = "plot"
    /\ UNCHANGED <<site_i, lag_i, lagged_x, plot_data>>
    /\ SweepFrame

NextSweep ==
    \/ LoadFails \/ LaggedRaises \/ LaggedBuilt \/ ComputeCell \/ NextSite \/ SweepDone

SpecSweep == InitSweep /\ [][NextSweep]_vars

(***************************************************************************)
(* Inputs of get_model_from_dict: a spec holds any of the recognized keys, *)
(* with known and unknown names, and possibly a key of no meaning.         *)
(***************************************************************************)
Entry(k, vals) == {EmptyDict} \cup {k :> v : v \in vals}

TransformDicts ==
    {a @@ b @@ c @@ d :
        a \in Entry("scaler", {"standard", "minmax", "robust"}),
        b \in Entry("pca", {TRUE}),
        c \in Entry("poly", {[degree |-> 2]}),
        d \in Entry("whiten", {TRUE})}

LagParams == [periods |-> 1, freq |-> "day"]

\* the release-dependent keywords that the specs of the model hold
ReleaseKeywords == {"normalize"}

ModelDicts ==
    {t @@ c @@ a @@ cr @@ l @@ m @@ fv @@ x :
        t \in Entry("transforms", TransformDicts),
        c \in Entry("class", {"LinearRegression", "SVR", "RandomForest"}),
        a \in Entry("args", {[fit_intercept |-> TRUE], [normalize |-> TRUE]}),
        cr \in Entry("clusterregression",
                     {[class |-> n, args |-> [n_clusters |-> 2]] :
                         n \in {"KMeans", "MiniBatchKMeans", "DBSCAN"}}),
        l \in Entry("lag", {LagParams}),
        m \in Entry("markov", {LagParams}),
        fv \in Entry("forcing_vars", {<<"SWdown", "Tair">>}),
        x \in Entry("variable", {<<"SWdown">>})}

InitBuild ==
    /\ model_dict \in ModelDicts
    /\ none_step \in BOOLEAN
    /\ sklearn_takes \in SUBSET ReleaseKeywords
    /\ build_out = <<>>
    /\ WindowIdle /\ RollIdle /\ DfIdle /\ MetricIdle /\ SweepIdle /\ DefIdle

CallGetModelFromDict ==
    /\ Len(build_out) < MaxCalls
    /\ build_out' = Append(build_out, get_model_from_dict(model_dict, none_step,
                                                          sklearn_takes))
    /\ model_dict' = ModelDictAfter(model_dict, sklearn_takes)
    /\ UNCHANGED <<windowVars, rollVars, dfVars, metricVars, sweepVars, none_step,
                   sklearn_takes, defVars>>

SpecBuild == InitBuild /\ [][CallGetModelFromDict]_vars

(***************************************************************************)
(* Inputs of get_model and get_model_from_def: the preset names and names  *)
(* that are no preset, with a model file that is missing, or that holds    *)
(* models under some of the names.                                         *)
(***************************************************************************)
ModelNames ==
    {"1lin", "3km27", "3km233", "3km27_lag", "5km27_lag", "lin", "5km27", "3km27_lag2"}

YamlNames == {"1lin", "3km27_lag", "lin"}

YamlDicts ==
    {[class |-> "LinearRegression"],
     [class |-> "RandomForest"],
     [args |-> [fit_intercept |-> TRUE]],
     [class |-> "LinearRegression", args |-> [normalize |-> TRUE]],
     [class |-> "LinearRegression", transforms |-> [scaler |-> "robust"]]}

YamlMappings ==
    UNION {[names -> YamlDicts] : names \in SUBSET YamlNames}

YamlFiles == {NoYamlFile} \cup {[exists |-> TRUE, models |-> m] : m \in YamlMappings}

InitDef ==
    /\ model_name \in ModelNames
    /\ yaml_file \in YamlFiles
    /\ yaml_legacy \in BOOLEAN
    /\ none_step \in BOOLEAN
    /\ sklearn_takes \in SUBSET ReleaseKeywords
    /\ def_out = Pending /\ model_out = Pending /\ yaml_read = FALSE
    /\ model_dict = EmptyDict /\ build_out = <<>>
    /\ WindowIdle /\ RollIdle /\ DfIdle /\ MetricIdle /\ SweepIdle

DefFrame ==
    UNCHANGED <<windowVars, rollVars, dfVars, metricVars, sweepVars, buildVars,
                model_name, yaml_file, yaml_legacy>>

CallGetModelFromDef ==
    /\ def_out = Pending
    /\ def_out' = get_model_from_def(model_name, none_step, sklearn_takes)
    /\ UNCHANGED <<model_out, yaml_read>>
    /\ DefFrame

CallGetModel ==
    /\ model_out = Pending
    /\ LET call == get_model(model_name, yaml_file, yaml_legacy, none_step, sklearn_takes)
       IN  /\ model_out' = call.out
           /\ yaml_read' = call.consulted
    /\ UNCHANGED def_out
    /\ DefFrame

NextDef == CallGetModelFromDef \/ CallGetModel

SpecDef == InitDef /\ [][NextDef]_vars

(***************************************************************************)
(* What the claims speak of, stated apart from the operators above.        *)
(***************************************************************************)
UnitTokens == {<<"m", "i", "n">>, <<"h">>, <<"d">>}

\* a label of the form <digits><unit>: at least one digit, then a unit, then nothing
DigitsThenUnit(w, k) ==
    /\ \A i \in 1..k : w[i] \in Digits
    /\ SubSeq(w, k + 1, Len(w)) \in UnitTokens

WellFormed(w) == \E k \in 1..(Len(w) - 1) : DigitsThenUnit(w, k)

RECURSIVE Pow10(_)
Pow10(k) == IF k = 0 THEN 1 ELSE 10 * Pow10(k - 1)

RECURSIVE PlaceSum(_, _, _)
PlaceSum(w, k, i) ==
    IF i > k THEN 0 ELSE DigitVal(w[i]) * Pow10(k - i) + PlaceSum(w, k, i + 1)

\* the magnitude of a well-formed label, digit by digit with its place value
Magnitude(w) ==
    LET k == CHOOSE j \in 1..(Len(w) - 1) : DigitsThenUnit(w, j)
    IN  PlaceSum(w, k, 1)

UnitOf(w) ==
    LET k == CHOOSE j \in 1..(Len(w) - 1) : DigitsThenUnit(w, j)
    IN  SubSeq(w, k + 1, Len(w))

\* magnitude/(60*freq), magnitude/freq or magnitude*24/freq as numerator and
\* denominator, freq = f[1]/f[2]
ExpectedNum(w, f) ==
    IF UnitOf(w) = <<"d">> THEN Magnitude(w) * 24 * f[2] ELSE Magnitude(w) * f[2]

ExpectedDen(w, f) == IF UnitOf(w) = <<"m", "i", "n">> THEN 60 * f[1] ELSE f[1]

ExpectedWhole(w, f) == ExpectedNum(w, f) % ExpectedDen(w, f) = 0

\* C1: for every well-formed label <digits><unit> and every sampling frequency
\* for which magnitude/(60*freq) (min), magnitude/freq (h) or magnitude*24/freq
\* (d) is whole, window_to_rows returns exactly that number; "3h" at 0.5 h per
\* sample returns 6.
C1_WindowToRowsValue ==
    rows_out # Pending =>
        /\ (WellFormed(window) /\ ExpectedWhole(window, datafreq)) =>
               rows_out = Return(ExpectedNum(window, datafreq)
                                 \div ExpectedDen(window, datafreq))
        /\ (window = W3h /\ datafreq = <<1, 2>>) => rows_out = Return(6)

C1_Witness ==
    /\ window = <<"0", "3", "d">> /\ datafreq = <<3, 2>>
    /\ rows_out = Return(48)

\* C2: window_to_rows returns no row count for an invalid window: for a label
\* that is malformed or has an unknown unit, or whose row count is not whole,
\* the call ends in an error and no value is returned (the claim names the
\* error ConfigError; stated here is only that the call does not return).
C2_InvalidWindowNeverReturns ==
    (rows_out # Pending /\ ~(WellFormed(window) /\ ExpectedWhole(window, datafreq)))
        => rows_out.kind = "raise"

(***************************************************************************)
(* C3.  The mean of input rows lo..hi of column c, from the cells.         *)
(***************************************************************************)
RECURSIVE CellTotal(_, _, _, _)
CellTotal(m, c, lo, hi) ==
    IF lo > hi THEN 0 ELSE m[lo][c][1] + CellTotal(m, c, lo + 1, hi)

AllPresent(m, c, lo, hi) == \A i \in lo..hi : m[i][c] # NaN

\* x is the mean of rows lo..hi of column c (the cells are whole numbers)
IsMeanOf(x, m, c, lo, hi) ==
    /\ x[2] # 0
    /\ x[1] * (hi - lo + 1) = CellTotal(m, c, lo, hi) * x[2]

\* column k of matrix out is the trailing mean of column c of matrix m over w rows
IsRollingMeanOf(out, k, m, c, w) ==
    \A i \in 1..Len(m) :
        IF i < w THEN out[i][k] = NaN
        ELSE IF AllPresent(m, c, i - w + 1, i)
             THEN IsMeanOf(out[i][k], m, c, i - w + 1, i)
             ELSE out[i][k] = NaN

\* C3: for an input of n rows and a window resolving to w rows, 1 <= w <= n,
\* rolling_mean returns a matrix of the input's shape whose entry (i, c) is
\* missing for i < w-1 (0-based), is the mean of input rows i-w+1..i of column
\* c when those are all present, and is missing when one of them is missing.
C3_RollingMean ==
    LET r == window_to_rows(window, datafreq)
    IN  (roll_out # Pending /\ r.kind = "return" /\ 1 <= r.value /\ r.value <= Len(data))
        => /\ roll_out.kind = "return"
           /\ Len(roll_out.value) = Len(data)
           /\ \A i \in 1..Len(data) : Len(roll_out.value[i]) = NumCols(data)
           /\ \A c \in 1..NumCols(data) :
                 IsRollingMeanOf(roll_out.value, c, data, c, r.value)

C3_Witness ==
    /\ window = W1h /\ datafreq = <<1, 2>>
    /\ data = << <<NaN, <<1, 1>>>>, <<<<1, 1>>, <<3, 1>>>>, <<<<3, 1>>, <<3, 1>>>> >>
    /\ roll_out.kind = "return"
    /\ roll_out.value[1] = <<NaN, NaN>>
    /\ roll_out.value[2][1] = NaN /\ IsMeanOf(roll_out.value[2][2], data, 2, 1, 2)
    /\ roll_out.value[3][1][1] * 1 = 2 * roll_out.value[3][1][2]

(***************************************************************************)
(* C4, C5.                                                                 *)
(***************************************************************************)
ValidLabels(ls) == \A j \in 1..Len(ls) : window_to_rows(ls[j], DefaultFreq).kind = "return"

\* the positions of table t's columns that belong to variable v, in order
ColumnsOf(t, v) == SelectSeq(t.columns, LAMBDA p : p[1] = v)

\* C4: for every input table and every ordered list of valid window labels,
\* get_lagged_df builds a table with one column per (variable, window) pair,
\* each variable's columns in the order of the window list and labelled by the
\* windows, with the input's rows in the input's order, and building it again
\* gives the same table.  (Stated for tables with at least one variable and
\* lists of at least one window.)
C4_LaggedTableForEveryInput ==
    \A k \in 1..Len(lagged_out) :
        (ValidLabels(lags) /\ lags # <<>> /\ df.columns # <<>>) =>
            LET out == lagged_out[k]
            IN  /\ out.kind = "return"
                /\ Len(out.value.columns) = Len(df.columns) * Len(lags)
                /\ \A c \in 1..Len(df.columns) :
                      ColumnsOf(out.value, df.columns[c])
                          = [j \in 1..Len(lags) |-> <<df.columns[c], lags[j]>>]
                /\ out.value.index = df.index
                /\ Len(out.value.values) = Len(df.index)
                /\ out = lagged_out[1]

\* C5: in multi-variable lag feature building a window list that holds the
\* 'cur' spec is accepted: when the other windows are ones rolling_mean takes
\* for the table, get_lagged_df builds the table, the column of 'cur' is the
\* variable's raw series at every row (no averaging, no leading missing
\* rows), and the column of any other window is its rolling mean.
C5_CurrentPassesThrough ==
    LET HasCurrent == \E j \in 1..Len(lags) : lags[j] = CurrentSpec
        OthersFit ==
            \A j \in 1..Len(lags) :
                lags[j] # CurrentSpec =>
                    rolling_mean(df.values, lags[j], DefaultFreq).kind = "return"
    IN  \A k \in 1..Len(lagged_out) :
            (HasCurrent /\ OthersFit /\ df.columns # <<>>) =>
                LET out == lagged_out[k]
                IN  /\ out.kind = "return"
                    /\ \A c \in 1..Len(df.columns), j \in 1..Len(lags) :
                          LET p == ColumnPos(out.value.columns, <<df.columns[c], lags[j]>>)
                          IN  IF lags[j] = CurrentSpec
                              THEN \A i \in 1..Len(df.index) :
                                      out.value.values[i][p] = df.values[i][c]
                              ELSE IsRollingMeanOf(
                                      out.value.values, p, df.values, c,
                                      window_to_rows(lags[j], DefaultFreq).value)

(***************************************************************************)
(* C6.                                                                     *)
(***************************************************************************)
\* the positions where both vectors hold a finite number
BothFinite == {i \in 1..Len(vec1) : vec1[i] \notin {NaN, Inf} /\ vec2[i] \notin {NaN, Inf}}

\* the entries of v at the positions P, in increasing order of position
Pick(v, P) ==
    [k \in 1..Cardinality(P) |->
        v[CHOOSE i \in P : Cardinality({j \in P : j < i}) = k - 1]]

\* C6: metric_complete applies the metric to exactly the positions where both
\* vectors are finite, the same positions in the same order in both arguments;
\* with no such position it returns the missing value and never calls the metric.
C6_MetricOnFinitePairs ==
    metric_out # Pending =>
        IF BothFinite = {}
        THEN metric_out = Return(MetricNaN) /\ func_calls = <<>>
        ELSE /\ func_calls = << <<Pick(vec1, BothFinite), Pick(vec2, BothFinite)>> >>
             /\ metric_out = Return(FuncValue(Pick(vec1, BothFinite), Pick(vec2, BothFinite)))

C6_Witness ==
    /\ vec1 = <<NaN, <<1, 1>>, <<2, 1>>>>
    /\ vec2 = <<<<1, 1>>, <<2, 1>>, Inf>>
    /\ func_calls = << << <<<<1, 1>>>>, <<<<2, 1>>>> >> >>
    /\ metric_out.kind = "return" /\ ~metric_out.value.nan

C6_WitnessAllMissing ==
    /\ vec1 = <<NaN, NaN>> /\ vec2 = <<NaN, NaN>>
    /\ metric_out = Return(MetricNaN)

(***************************************************************************)
(* C7.                                                                     *)
(***************************************************************************)
\* C7: in a full metric sweep every pair is computed independently: a pair
\* whose computation fails, or whose overlap is degenerate or empty, leaves
\* its cell missing and the rest of the sweep is still computed, so the sweep
\* runs to completion over all windows and all sites: no exception ever
\* leaves the loop over sites.
C7_SweepRunsToCompletion == sweep_pc # "raised"

(***************************************************************************)
(* C8, C9, C10.                                                            *)
(***************************************************************************)
\* the classes of an estimator's parts, in order
PartClasses(e) == [i \in 1..Len(e.parts) |-> e.parts[i].cls]

\* the steps the claim gives the composite of spec md, by class
ClaimedSteps(md) ==
    LET t == IF Has(md, "transforms") THEN md["transforms"] ELSE EmptyDict
    IN  (IF Has(t, "scaler")
         THEN <<IF t["scaler"] = "standard" THEN "StandardScaler" ELSE "MinMaxScaler">>
         ELSE <<>>)
        \o (IF Has(t, "pca") THEN <<"PCA">> ELSE <<>>)
        \o (IF Has(t, "poly") THEN <<"PolynomialFeatures">> ELSE <<>>)
        \o <<IF Has(md, "clusterregression") THEN "ModelByCluster" ELSE md["class"]>>

KnownSpec(md) ==
    /\ Has(md, "transforms") =>
          /\ DOMAIN md["transforms"] \subseteq {"scaler", "pca", "poly"}
          /\ Has(md["transforms"], "scaler") =>
                md["transforms"]["scaler"] \in {"standard", "minmax"}
    /\ Has(md, "class") /\ md["class"] \in ModelClasses
    /\ Has(md, "clusterregression") =>
          md["clusterregression"]["class"] \in {"KMeans", "MiniBatchKMeans"}
    /\ DOMAIN md \subseteq {"transforms", "class", "args", "clusterregression", "lag",
                            "markov", "forcing_vars"}

\* C8: get_model_from_dict composes scaler, PCA, polynomial expansion and the
\* base model (cluster-conditioned when clusterregression is given) in this
\* order, wraps the whole composite in the missing-data guard, and puts at
\* most one outer wrapper around the guard: the lag wrapper when a lag config
\* is present, else the markov wrapper when a markov config is present.
C8_GuardedComposition ==
    \A k \in 1..Len(build_out) :
        (KnownSpec(model_dict) /\ build_out[k].kind = "return") =>
            LET est == build_out[k].value.est
                outer == IF Has(model_dict, "lag") THEN "LagWrapper"
                         ELSE IF Has(model_dict, "markov") THEN "MarkovWrapper"
                         ELSE "none"
                guard == IF outer = "none" THEN est ELSE est.parts[1]
            IN  /\ outer # "none" => est.cls = outer
                /\ guard.cls = "MissingDataWrapper"
                /\ guard.parts[1].cls = "Pipeline"
                /\ PartClasses(guard.parts[1]) = ClaimedSteps(model_dict)

\* C9: get_model_from_dict returns no estimator for an invalid spec: with an
\* unknown transform key, scaler name, model class name or clusterer name, or
\* a top-level key outside the recognized set, the call ends in an error.
\* (Stated for an sklearn that refuses a None step, the case in which the
\* most invalid specs fail.)
C9_InvalidSpecNeverBuilds ==
    \A k \in 1..Len(build_out) :
        (~none_step /\ ~KnownSpec(model_dict)) => build_out[k].kind = "raise"

\* C10: building never mutates the spec: across every call of
\* get_model_from_dict, returning or failing, model_dict and the dicts nested
\* in it hold what they held before, and a second build from the same spec
\* object gives the same composition as the first.
C10_SpecNeverMutated ==
    /\ [][model_dict' = model_dict]_vars
    /\ [](Len(build_out) >= 2 => build_out[2] = build_out[1])

C10_Witness ==
    /\ Len(build_out) = 2
    /\ Has(model_dict, "transforms")
    /\ DOMAIN model_dict["transforms"] = {"scaler", "pca", "poly"}
    /\ Has(model_dict, "args") /\ Has(model_dict, "clusterregression")
    /\ Has(model_dict, "lag") /\ Has(model_dict, "forcing_vars")
    /\ build_out[1].kind = "return"
    /\ build_out[2].kind = "return"
    /\ PartClasses(build_out[2].value.est.parts[1])
          = <<"StandardScaler", "PCA", "PolynomialFeatures", "ModelByCluster">>

(***************************************************************************)
(* The presets as the claim names them, stated apart from the operators    *)
(* above: the names, and the forcing-variable list of each.                *)
(***************************************************************************)
PresetNames == {"1lin", "3km27", "3km233", "3km27_lag", "5km27_lag"}

PresetForcingVars(nm) ==
    IF nm = "1lin" THEN <<"SWdown">>
    ELSE IF nm = "5km27_lag" THEN <<"SWdown", "Tair", "RelHum", "Wind", "Rainf">>
    ELSE <<"SWdown", "Tair", "RelHum">>

\* the outermost estimator that each preset configures
PresetOuterClass(nm) ==
    IF nm = "5km27_lag" THEN "LagAverageWrapper" ELSE "MissingDataWrapper"

IsPresetModel(out, nm) ==
    /\ out.kind = "return"
    /\ out.value.forcing_vars = PresetForcingVars(nm)
    /\ out.value.est.cls = PresetOuterClass(nm)

\* C11: preset selection is one total mapping from name to configuration:
\* get_model_from_def returns the configured model, with its forcing-variable
\* list, for each of the preset names 1lin, 3km27, 3km233, 3km27_lag and
\* 5km27_lag, and fails with the unknown-model error for every other name and
\* only for those; get_model on a preset name returns that preset's model
\* without consulting the YAML model file.
C11_PresetMapping ==
    /\ def_out # Pending =>
          IF model_name \in PresetNames THEN IsPresetModel(def_out, model_name)
          ELSE def_out = Raise("Exception")
    /\ (model_out # Pending /\ model_name \in PresetNames) =>
          /\ ~yaml_read
          /\ IsPresetModel(model_out, model_name)

=============================================================================
